---- MODULE Spec2Model ----
(***************************************************************************)
(* Model of the kanban task store: app/storage.py (JSONStorage,            *)
(* TaskStorage), app/models.py (Task, TaskCreate, TaskUpdate, TaskMove),   *)
(* app/config.py (COLUMNS) and the task routes of app/routes/tasks.py.     *)
(*                                                                         *)
(* Threads call the store concurrently.  Every acquisition of the store's  *)
(* lock is a step of its own: _read_data and _write_data take the lock     *)
(* separately, so a mutating operation is a read step, local work, and a   *)
(* write that opens (truncates) the file and then dumps the collection.    *)
(***************************************************************************)
EXTENDS Integers, Sequences, FiniteSets, TLC

VARIABLES
    file,     \* tasks.json: the last completely written collection (sequence of JSON items)
    partial,  \* TRUE while the file is opened with 'w' and not yet dumped (content truncated)
    lock,     \* holder of JSONStorage._lock, or NoThread
    pc,       \* per thread: position in its current operation
    op,       \* per thread: the current (or last finished) operation, its inputs and results
    data,     \* per thread: the local variable `data` of the store method
    now,      \* the clock read by datetime.utcnow()
    nextId,   \* source of fresh ids (uuid4)
    nOps,     \* per thread: operations finished (history)
    prev,     \* per thread: the operation finished before the last one (history)
    seen,     \* per thread: what its last _read_data returned, and what it could have returned (history)
    file0,    \* the collection the store held at start (history)
    missing,  \* TRUE while tasks.json does not exist
    ufile,    \* users.json: the last completely written collection of user items
    upartial, \* TRUE while users.json is opened with 'w' and not yet dumped
    umissing, \* TRUE while users.json does not exist
    ulock,    \* holder of the user store's _lock, or NoThread
    uop,      \* per thread: its current (or last finished) call of the user store
    udata,    \* per thread: the local variable `data` of the user store method
    categories, \* the explicitly stored category names, in stored order
    cop       \* per thread: its last call of the category store or listing

\* the state of the user store
userVars == <<ufile, upartial, umissing, ulock, uop, udata>>

\* the state of the task store, and of the threads' calls of it
taskVars == <<file, partial, missing, lock, op, data, now, nextId, prev, seen, file0>>

\* the state of the category store
catVars == <<categories, cop>>

vars == <<file, partial, lock, pc, op, data, now, nextId, nOps, prev, seen, file0,
          missing, userVars, catVars>>

----------------------------------------------------------------------------
(* Bounds *)

\* operations started, over all threads
MaxOps == 2
\* ids uuid4 hands out
MaxIds == 2

Threads == {"t1", "t2"}
NoThread == "none"
\* the task ids a call may name
TaskIds == {1, 2}

----------------------------------------------------------------------------
(* Python values.  None is the empty tuple and a present Optional value a   *)
(* 1-tuple; a datetime is a natural number and its ISO string a record.     *)

None == <<>>
Some(v) == <<v>>

\* datetime.isoformat()
isoformat(d) == [iso |-> d]
\* pydantic's parse of an ISO string into a datetime
parse_datetime(s) == s.iso

COLUMNS == <<"Recurring", "Backlog", "In Progress", "Review", "Done">>
ColumnSet == {COLUMNS[i] : i \in 1..Len(COLUMNS)}

\* Task(**fields): id from uuid4, created_at and updated_at from utcnow
Task(p, id, c, u) ==
    [id |-> id, title |-> p.title, description |-> p.description,
     priority |-> p.priority, category |-> p.category, due_date |-> p.due_date,
     column |-> p.column, created_at |-> c, updated_at |-> u]

\* a dump that loses the due date
task_dict_no_due_date(t) ==
    [id |-> t.id, title |-> t.title, description |-> t.description,
     priority |-> t.priority, category |-> t.category,
     due_date |-> None,
     column |-> t.column,
     created_at |-> isoformat(t.created_at),
     updated_at |-> isoformat(t.updated_at)]

\* task.model_dump() followed by the isoformat loop of TaskStorage.create
task_dict(t) ==
    [id |-> t.id, title |-> t.title, description |-> t.description,
     priority |-> t.priority, category |-> t.category,
     due_date |-> IF t.due_date # None THEN Some(isoformat(t.due_date[1])) ELSE None,
     column |-> t.column,
     created_at |-> isoformat(t.created_at),
     updated_at |-> isoformat(t.updated_at)]

\* Task(**item) on a stored item
TaskOfItem(item) ==
    [id |-> item.id, title |-> item.title, description |-> item.description,
     priority |-> item.priority, category |-> item.category,
     due_date |-> IF item.due_date # None THEN Some(parse_datetime(item.due_date[1])) ELSE None,
     column |-> item.column,
     created_at |-> parse_datetime(item.created_at),
     updated_at |-> parse_datetime(item.updated_at)]

----------------------------------------------------------------------------
(* Inputs *)

\* keyword arguments of Task(...) / bodies of TaskCreate
TaskInputs ==
    { [title |-> "T1", description |-> None, priority |-> "Medium",
       category |-> None, due_date |-> None, column |-> "Backlog"],
      [title |-> "T2", description |-> Some("d"), priority |-> "High",
       category |-> Some("Work"), due_date |-> Some(7), column |-> "In Progress"] }

\* a TaskUpdate body: every attribute is None unless set; fields_set are the keys the body carries
Unset == [title |-> None, description |-> None, priority |-> None,
          category |-> None, due_date |-> None, column |-> None]

\* an `updates` dict: its keys and the value under each key
Updates(keys, val) == [keys |-> keys, val |-> val]
NoUpdates == Updates({}, Unset)

\* the dicts a caller hands to TaskStorage.update
StoreUpdates ==
    { Updates({"title"}, [Unset EXCEPT !.title = Some("X")]),
      Updates({"title"}, [Unset EXCEPT !.title = Some("Y")]),
      Updates({"priority"}, [Unset EXCEPT !.priority = Some("Low")]),
      Updates({"title", "priority"},
              [Unset EXCEPT !.title = Some("Z"), !.priority = Some("High")]),
      Updates({"description"}, Unset) }

\* the dicts concurrent callers hand to TaskStorage.update
ConcUpdates == {u \in StoreUpdates : Cardinality(u.keys) = 1 /\ u.keys # {"description"}}

\* target columns a caller hands to TaskStorage.move, and positions
StoreColumns == {"Done"}
Positions == {None, Some(0)}

----------------------------------------------------------------------------
(* TaskStorage, as functions of the collection read *)

\* a search that falls back on the first item when no item has this id
IndexOfOrFirst(coll, id) ==
    LET S == {i \in 1..Len(coll) : coll[i].id = id}
    IN  IF S = {} THEN (IF Len(coll) > 0 THEN 1 ELSE 0)
        ELSE CHOOSE i \in S : \A j \in S : i <= j

\* index of the first item with this id, 0 when there is none
IndexOf(coll, id) ==
    LET S == {i \in 1..Len(coll) : coll[i].id = id}
    IN  IF S = {} THEN 0 ELSE CHOOSE i \in S : \A j \in S : i <= j

\* the value stored under key for an update value v (not None)
StoredValue(key, v) ==
    IF key = "due_date" THEN Some(isoformat(v))
    ELSE IF key \in {"description", "category"} THEN Some(v)
    ELSE v

\* an update that clears the optional text fields it was not given
ApplyUpdatesClearing(item, updates, ts) ==
    [k \in DOMAIN item |->
        IF k = "updated_at" THEN isoformat(ts)
        ELSE IF k \in updates.keys /\ updates.val[k] # None
             THEN StoredValue(k, updates.val[k][1])
             ELSE IF k \in {"description", "category"} THEN None ELSE item[k]]

\* an update that stamps created_at as well
ApplyUpdatesStamping(item, updates, ts) ==
    [k \in DOMAIN item |->
        IF k \in {"updated_at", "created_at"} THEN isoformat(ts)
        ELSE IF k \in updates.keys /\ updates.val[k] # None
             THEN StoredValue(k, updates.val[k][1])
             ELSE item[k]]

\* the loop of TaskStorage.update over updates.items(), then updated_at
ApplyUpdates(item, updates, ts) ==
    [k \in DOMAIN item |->
        IF k = "updated_at" THEN isoformat(ts)
        ELSE IF k \in updates.keys /\ updates.val[k] # None
             THEN StoredValue(k, updates.val[k][1])
             ELSE item[k]]

\* an update that moves the item it changed behind the others
UpdatedDataLast(coll, i, updates, ts) ==
    Append(SelectSeq(coll, LAMBDA item : item.id # coll[i].id),
           ApplyUpdates(coll[i], updates, ts))

\* data after TaskStorage.update found the item at index i
UpdatedData(coll, i, updates, ts) ==
    [coll EXCEPT ![i] = ApplyUpdates(coll[i], updates, ts)]

\* a context manager that keeps the lock when the body raises
KeepLock(t) == t

\* a filter that keeps the items it should drop
WithoutIdInverted(coll, id) == SelectSeq(coll, LAMBDA item : item.id = id)

\* data = [item for item in data if item['id'] != task_id]
WithoutId(coll, id) == SelectSeq(coll, LAMBDA item : item.id # id)

\* TaskStorage.get_by_id on the collection read
GetById(coll, id) ==
    IF IndexOf(coll, id) = 0 THEN None ELSE Some(TaskOfItem(coll[IndexOf(coll, id)]))

----------------------------------------------------------------------------
(* State *)

\* an operation of a thread: what it was called with and what it has produced
\* (`pre` is the collection stored when the call was made: history; `column` is the
\* target column of a move or of a filter, `all` the list get_all or a filter
\* returned, `board` the board view, `exc` whether it raised,
\* `disk` the condition of the file when the call was made: history)
Op(kind, via, id, task, updates, pos) ==
    [kind |-> kind, via |-> via, id |-> id, task |-> task, updates |-> updates,
     pos |-> pos, ts |-> 0, ret |-> None, ok |-> FALSE, resp |-> 0, pre |-> <<>>,
     column |-> None, all |-> <<>>, board |-> [c \in ColumnSet |-> <<>>],
     exc |-> FALSE, disk |-> "ok"]

NoOp == Op("none", "store", 0, None, NoUpdates, None)
\* no load yet: `got` is what a finished load returned, `from` the collections it
\* could have returned, `could` the collections a load in flight can return
NoLoad == [done |-> FALSE, got |-> <<>>, from |-> {}, could |-> {}]

\* stores found at start: collections earlier runs of the store have written
Stored(p, id) == task_dict(Task(p, id, 2 * (id - 1), 2 * (id - 1) + 1))
P1 == CHOOSE p \in TaskInputs : p.title = "T1"
P2 == CHOOSE p \in TaskInputs : p.title = "T2"
InitialFiles == { <<>>, <<Stored(P1, 1)>>, <<Stored(P1, 1), Stored(P2, 2)>> }

\* User(username=..., hashed_password=...).model_dump()
User(username, hashed_password, is_admin) ==
    [username |-> username, hashed_password |-> hashed_password,
     disabled |-> FALSE, is_admin |-> is_admin]

\* a call of the user store: what it was called with and what it has produced
\* (`caller` is the username of the request's token, `me` the current_user resolved
\* for it, `current` and `new` the passwords of a PasswordChange body, `all` the
\* users list_all returned)
UserOp(kind, via, username, user) ==
    [kind |-> kind, via |-> via, username |-> username, user |-> user,
     ret |-> None, ok |-> FALSE, resp |-> 0, pre |-> <<>>, exc |-> FALSE, disk |-> "ok",
     caller |-> "", me |-> None, current |-> "", new |-> "", all |-> <<>>]

NoUserOp == UserOp("none", "store", "", None)

\* get_password_hash(password): an opaque value made from the password
get_password_hash(password) == [hash |-> password]

\* verify_password(plain_password, hashed_password)
verify_password(plain, hashed) == hashed = get_password_hash(plain)

\* users.json after the default admin was provisioned
InitialUsers == <<User("admin", get_password_hash("changeme"), TRUE)>>

\* a call of the category store, or a category listing
\* (`ok` is what add, delete or exists returned, `list` what get_all or the listing
\* returned, `pre` and `tasks` the stored categories and the tasks the call found,
\* `n` the number of the thread's calls so far)
CatOp(kind, name) ==
    [kind |-> kind, name |-> name, ok |-> FALSE, list |-> <<>>,
     pre |-> <<>>, tasks |-> <<>>, n |-> 0]

\* the state after the stores were constructed, over these task and user files
InitWith(files, users) ==
    /\ file \in files
    /\ missing = FALSE
    /\ ufile \in users
    /\ categories = <<>>
    /\ cop = [t \in Threads |-> CatOp("none", "")]
    /\ upartial = FALSE
    /\ umissing = FALSE
    /\ ulock = NoThread
    /\ uop = [t \in Threads |-> NoUserOp]
    /\ udata = [t \in Threads |-> <<>>]
    /\ file0 = file
    /\ partial = FALSE
    /\ lock = NoThread
    /\ pc = [t \in Threads |-> "idle"]
    /\ op = [t \in Threads |-> NoOp]
    /\ prev = [t \in Threads |-> NoOp]
    /\ data = [t \in Threads |-> <<>>]
    /\ seen = [t \in Threads |-> NoLoad]
    /\ nOps = [t \in Threads |-> 0]
    /\ now = 2 * Len(file)
    /\ nextId = Len(file) + 1

Init == InitWith(InitialFiles, {InitialUsers})

----------------------------------------------------------------------------
(* JSONStorage *)

\* a read that does not take the lock
ReadUnlocked == TRUE

\* `with self._lock:` of _read_data
ReadLock == lock = NoThread
\* `with self._lock:` of _write_data
WriteLock == lock = NoThread

\* a load that returns the last written collection whatever the file's condition
ReadDataStale == file

\* json.load of the file; a truncated file raises JSONDecodeError, a missing one
\* FileNotFoundError, and both give []
ReadData == IF partial \/ missing THEN <<>> ELSE file

RECURSIVE SumOver(_, _)
SumOver(f, S) ==
    IF S = {} THEN 0
    ELSE LET x == CHOOSE y \in S : TRUE IN f[x] + SumOver(f, S \ {x})

\* the condition of tasks.json: a truncated file that no writer holds open stays truncated
DiskState ==
    IF missing THEN "missing"
    ELSE IF partial /\ lock = NoThread THEN "truncated" ELSE "ok"

\* the collection tasks.json holds, [] when it holds none
Disk == IF DiskState = "ok" THEN file ELSE <<>>

\* operations started so far
Started == SumOver(nOps, Threads)

\* history: a load of thread t starts / ends with the collection rd
LoadStarts(t) == [done |-> FALSE, got |-> <<>>, from |-> {}, could |-> {file}]
LoadEnds(t, rd) == [done |-> TRUE, got |-> rd, from |-> seen[t].could, could |-> {}]

\* thread t calls a store method: o is the call
Call(t, o) ==
    /\ pc[t] = "idle"
    /\ Started < MaxOps
    /\ op' = [op EXCEPT ![t] = [o EXCEPT !.pre = Disk, !.disk = DiskState]]
    /\ prev' = [prev EXCEPT ![t] = op[t]]
    /\ nOps' = [nOps EXCEPT ![t] = @ + 1]
    /\ seen' = [seen EXCEPT ![t] = LoadStarts(t)]
    /\ pc' = [pc EXCEPT ![t] = IF o.via = "route" /\ o.kind \in {"update", "move"}
                               THEN "check"
                               ELSE IF o.kind = "init" THEN "ensure" ELSE "read"]

\* thread t's method returns: o is the finished call
Return(t, o) ==
    /\ op' = [op EXCEPT ![t] = o]
    /\ pc' = [pc EXCEPT ![t] = "idle"]

----------------------------------------------------------------------------
(* Calls of TaskStorage *)

\* a source of ids that hands out the last id again
uuid4Repeats == IF nextId > 1 THEN nextId - 1 ELSE nextId

\* str(uuid4()): an id no earlier call was given
uuid4 == nextId

\* the status the route answers with; a direct call of the store has none
Status(o, code) == IF o.via = "route" THEN code ELSE 0

\* task = Task(...); storage.create(task)
StoreCreate(t, p) ==
    /\ nextId <= MaxIds
    /\ Call(t, Op("create", "store", uuid4, Some(Task(p, uuid4, now, now + 1)),
                  NoUpdates, None))
    /\ nextId' = nextId + 1
    /\ now' = now + 2
    /\ UNCHANGED <<file, partial, lock, data, file0, missing, userVars, catVars>>

\* what a route with response_model=Task answers when its handler returns None:
\* a null body with 200, or 500 where the framework validates the response
NoTaskResponses == {200, 500}

\* storage.update(task_id, updates)
StoreUpdate(t, id, updates) ==
    /\ Call(t, Op("update", "store", id, None, updates, None))
    /\ UNCHANGED <<file, partial, lock, data, now, nextId, file0, missing, userVars, catVars>>

\* a move that hands update a dict without the column
MoveUpdatesEmpty(column) == Updates({"column"}, Unset)

\* the dict TaskStorage.move hands to update
MoveUpdates(column) == Updates({"column"}, [Unset EXCEPT !.column = Some(column)])

\* storage.move(task_id, column, position)
StoreMove(t, id, column, pos) ==
    /\ Call(t, [Op("move", "store", id, None, MoveUpdates(column), pos)
                  EXCEPT !.column = Some(column)])
    /\ UNCHANGED <<file, partial, lock, data, now, nextId, file0, missing, userVars, catVars>>

\* storage.delete(task_id)
StoreDelete(t, id) ==
    /\ Call(t, Op("delete", "store", id, None, NoUpdates, None))
    /\ UNCHANGED <<file, partial, lock, data, now, nextId, file0, missing, userVars, catVars>>

\* storage.get_by_id(task_id)
StoreGet(t, id) ==
    /\ Call(t, Op("get", "store", id, None, NoUpdates, None))
    /\ UNCHANGED <<file, partial, lock, data, now, nextId, file0, missing, userVars, catVars>>

----------------------------------------------------------------------------
(* Steps of TaskStorage: each is one acquisition of the lock *)

\* create: data = self._read_data(); data.append(task_dict)
CreateRead(t) ==
    /\ pc[t] = "read" /\ op[t].kind = "create"
    /\ ReadLock
    /\ data' = [data EXCEPT ![t] = Append(ReadData, task_dict(op[t].task[1]))]
    /\ seen' = [seen EXCEPT ![t] = LoadEnds(t, ReadData)]
    /\ pc' = [pc EXCEPT ![t] = "write"]
    /\ UNCHANGED <<file, partial, lock, op, now, nextId, nOps, prev, file0, missing, userVars, catVars>>

\* update: data = self._read_data(); find the item, apply the updates, or return None
UpdateRead(t) ==
    /\ pc[t] = "read" /\ op[t].kind \in {"update", "move"}
    /\ ReadLock
    /\ seen' = [seen EXCEPT ![t] = LoadEnds(t, ReadData)]
    /\ LET i == IndexOf(ReadData, op[t].id)
       IN  IF i = 0
           THEN /\ \E code \in NoTaskResponses :
                      Return(t, [op[t] EXCEPT !.ret = None, !.resp = Status(op[t], code)])
                /\ data' = [data EXCEPT ![t] = ReadData]
                /\ now' = now
           ELSE /\ data' = [data EXCEPT ![t] = UpdatedData(ReadData, i, op[t].updates, now)]
                /\ op' = [op EXCEPT ![t].ts = now]
                /\ now' = now + 1
                /\ pc' = [pc EXCEPT ![t] = "write"]
    /\ UNCHANGED <<file, partial, lock, nextId, nOps, prev, file0, missing, userVars, catVars>>

\* delete: data = self._read_data(); filter; return False when nothing was removed
DeleteRead(t) ==
    /\ pc[t] = "read" /\ op[t].kind = "delete"
    /\ ReadLock
    /\ seen' = [seen EXCEPT ![t] = LoadEnds(t, ReadData)]
    /\ data' = [data EXCEPT ![t] = WithoutId(ReadData, op[t].id)]
    /\ IF Len(WithoutId(ReadData, op[t].id)) < Len(ReadData)
       THEN /\ pc' = [pc EXCEPT ![t] = "write"]
            /\ op' = op
       ELSE Return(t, [op[t] EXCEPT !.ok = FALSE, !.resp = Status(op[t], 404)])
    /\ UNCHANGED <<file, partial, lock, now, nextId, nOps, prev, file0, missing, userVars, catVars>>

\* get_by_id: tasks = self.get_all(); first task with the id, or None
GetRead(t) ==
    /\ pc[t] = "read" /\ op[t].kind = "get"
    /\ ReadLock
    /\ seen' = [seen EXCEPT ![t] = LoadEnds(t, ReadData)]
    /\ data' = [data EXCEPT ![t] = ReadData]
    /\ Return(t, [op[t] EXCEPT !.ret = GetById(ReadData, op[t].id),
                               !.resp = Status(op[t], IF GetById(ReadData, op[t].id) = None
                                                      THEN 404 ELSE 200)])
    /\ UNCHANGED <<file, partial, lock, now, nextId, nOps, prev, file0, missing, userVars, catVars>>

\* _write_data: take the lock and open the file with 'w', which truncates it
OpenWrite(t) ==
    /\ pc[t] = "write"
    /\ WriteLock
    /\ lock' = t
    /\ partial' = TRUE
    /\ missing' = FALSE
    /\ pc' = [pc EXCEPT ![t] = "dump"]
    /\ UNCHANGED <<file, op, data, now, nextId, nOps, prev, seen, file0, userVars, catVars>>

\* what the method returns after its write
Returned(o, coll) ==
    CASE o.kind = "create" -> [o EXCEPT !.ret = o.task, !.resp = Status(o, 201)]
      [] o.kind \in {"update", "move"} ->
            [o EXCEPT !.ret = Some(TaskOfItem(coll[IndexOf(coll, o.id)])),
                      !.resp = Status(o, 200)]
      [] o.kind = "delete" -> [o EXCEPT !.ok = TRUE, !.resp = Status(o, 204)]

\* _write_data: json.dump, close the file, release the lock; the method returns.
\* (The dump of a non-empty list lands in the file another instance has opened
\* with 'w' and not yet written: that instance's "[]" then overwrites its start.)
DumpWrite(t) ==
    /\ pc[t] = "dump"
    /\ lock = t
    /\ file' = data[t]
    /\ partial' = FALSE
    /\ lock' = NoThread
    /\ seen' = [u \in Threads |->
                  IF pc[u] \in {"read", "check"}
                  THEN [seen[u] EXCEPT !.could = @ \cup {data[t]}]
                  ELSE seen[u]]
    /\ op' = [op EXCEPT ![t] = Returned(op[t], data[t])]
    /\ pc' = [u \in Threads |->
                IF u = t THEN "idle"
                ELSE IF pc[u] = "edump" /\ data[t] # <<>> THEN "egarbled" ELSE pc[u]]
    /\ UNCHANGED <<data, now, nextId, nOps, prev, file0, missing, userVars, catVars>>

----------------------------------------------------------------------------
StoreCall(t, updates, positions) ==
    \/ \E p \in TaskInputs : StoreCreate(t, p)
    \/ \E id \in TaskIds, u \in updates : StoreUpdate(t, id, u)
    \/ \E id \in TaskIds, c \in StoreColumns, pos \in positions : StoreMove(t, id, c, pos)
    \/ \E id \in TaskIds : StoreDelete(t, id)
    \/ \E id \in TaskIds : StoreGet(t, id)

StoreStep(t) ==
    \/ CreateRead(t)
    \/ UpdateRead(t)
    \/ DeleteRead(t)
    \/ GetRead(t)
    \/ OpenWrite(t)
    \/ DumpWrite(t)

\* threads calling the store concurrently
Next == \E t \in Threads : StoreCall(t, ConcUpdates, {None}) \/ StoreStep(t)

Spec == Init /\ [][Next]_vars

\* one thread calling the store
SeqNext == \E t \in {"t1"} : StoreCall(t, StoreUpdates, Positions) \/ StoreStep(t)

SeqSpec == Init /\ [][SeqNext]_vars

----------------------------------------------------------------------------
(* The task routes (app/routes/tasks.py).  The handlers are coroutines that *)
(* never await, so the event loop runs one request at a time.               *)

\* column values a request body may carry
RequestColumns == {"Done", "", "Bogus"}

\* TaskCreate bodies
CreateBodies == {[p EXCEPT !.column = c] : p \in {P1}, c \in RequestColumns}

\* TaskUpdate bodies
UpdateBodies ==
    {Updates({"column"}, [Unset EXCEPT !.column = Some(c)]) : c \in RequestColumns}
    \cup {Updates({"title"}, [Unset EXCEPT !.title = Some("X")]),
          Updates({"description"}, Unset)}

\* `if task_data.column not in COLUMNS` of create_task, `if move_data.column not in COLUMNS` of move_task
InvalidColumn(column) == column \notin ColumnSet

\* `if task_data.column and task_data.column not in COLUMNS` of update_task
InvalidUpdateColumn(body) ==
    /\ body.val.column # None /\ body.val.column[1] # ""
    /\ body.val.column[1] \notin ColumnSet

\* POST /api/tasks
create_task(t, body) ==
    IF InvalidColumn(body.column)
    THEN /\ pc[t] = "idle"
         /\ Started < MaxOps
         /\ op' = [op EXCEPT ![t] = [Op("create", "route", 0, None, MoveUpdates(body.column), None)
                                      EXCEPT !.resp = 400, !.pre = Disk, !.disk = DiskState]]
         /\ prev' = [prev EXCEPT ![t] = op[t]]
         /\ nOps' = [nOps EXCEPT ![t] = @ + 1]
         /\ UNCHANGED <<file, partial, lock, pc, data, now, nextId, seen, file0, missing, userVars, catVars>>
    ELSE /\ nextId <= MaxIds
         /\ Call(t, Op("create", "route", uuid4, Some(Task(body, uuid4, now, now + 1)),
                       MoveUpdates(body.column), None))
         /\ nextId' = nextId + 1
         /\ now' = now + 2
         /\ UNCHANGED <<file, partial, lock, data, file0, missing, userVars, catVars>>

\* PUT /api/tasks/{task_id}
update_task(t, id, body) ==
    /\ Call(t, Op("update", "route", id, None, body, None))
    /\ UNCHANGED <<file, partial, lock, data, now, nextId, file0, missing, userVars, catVars>>

\* PATCH /api/tasks/{task_id}/move
move_task(t, id, column, pos) ==
    /\ Call(t, [Op("move", "route", id, None, MoveUpdates(column), pos)
                  EXCEPT !.column = Some(column)])
    /\ UNCHANGED <<file, partial, lock, data, now, nextId, file0, missing, userVars, catVars>>

\* DELETE /api/tasks/{task_id}
delete_task(t, id) ==
    /\ Call(t, Op("delete", "route", id, None, NoUpdates, None))
    /\ UNCHANGED <<file, partial, lock, data, now, nextId, file0, missing, userVars, catVars>>

\* GET /api/tasks/{task_id}
get_task(t, id) ==
    /\ Call(t, Op("get", "route", id, None, NoUpdates, None))
    /\ UNCHANGED <<file, partial, lock, data, now, nextId, file0, missing, userVars, catVars>>

\* update_task / move_task: existing = task_storage.get_by_id(task_id), then the column check
CheckRead(t) ==
    /\ pc[t] = "check"
    /\ ReadLock
    /\ seen' = [seen EXCEPT ![t] = [LoadEnds(t, ReadData) EXCEPT !.could = {file}]]
    /\ data' = [data EXCEPT ![t] = ReadData]
    /\ IF GetById(ReadData, op[t].id) = None
       THEN Return(t, [op[t] EXCEPT !.resp = 404])
       ELSE IF \/ op[t].kind = "update" /\ InvalidUpdateColumn(op[t].updates)
               \/ op[t].kind = "move" /\ InvalidColumn(op[t].updates.val.column[1])
            THEN Return(t, [op[t] EXCEPT !.resp = 400])
            ELSE /\ pc' = [pc EXCEPT ![t] = "read"]
                 /\ op' = op
    /\ UNCHANGED <<file, partial, lock, now, nextId, nOps, prev, file0, missing, userVars, catVars>>

RouteCall(t) ==
    \/ \E body \in CreateBodies : create_task(t, body)
    \/ \E id \in TaskIds, body \in UpdateBodies : update_task(t, id, body)
    \/ \E id \in TaskIds, c \in RequestColumns : move_task(t, id, c, None)
    \/ \E id \in TaskIds : delete_task(t, id)
    \/ \E id \in TaskIds : get_task(t, id)

\* requests through the task routes, one at a time
RouteNext == \E t \in {"t1"} : RouteCall(t) \/ CheckRead(t) \/ StoreStep(t)

RouteSpec == Init /\ [][RouteNext]_vars

\* update and move requests, handled while another thread deletes through the store
RaceNext ==
    \/ \E t \in {"t1"} :
          \/ \E id \in TaskIds, body \in UpdateBodies : update_task(t, id, body)
          \/ \E id \in TaskIds, c \in RequestColumns : move_task(t, id, c, None)
          \/ CheckRead(t) \/ UpdateRead(t)
    \/ \E t \in {"t2"} :
          \/ \E id \in TaskIds : StoreDelete(t, id)
          \/ DeleteRead(t)
    \/ \E t \in Threads : OpenWrite(t) \/ DumpWrite(t)

RaceSpec == Init /\ [][RaceNext]_vars

\* one caller that calls the store directly and sends requests, one at a time
CallerNext ==
    \E t \in {"t1"} :
        StoreCall(t, ConcUpdates, {None}) \/ RouteCall(t) \/ CheckRead(t) \/ StoreStep(t)

CallerSpec == Init /\ [][CallerNext]_vars

----------------------------------------------------------------------------
(* get_all, construction of a store, and the failures of the file system *)

\* storage.get_all()
StoreGetAll(t) ==
    /\ Call(t, Op("get_all", "store", 0, None, NoUpdates, None))
    /\ UNCHANGED <<file, partial, lock, data, now, nextId, file0, missing, userVars, catVars>>

\* get_all: data = self._read_data(); return [Task(**item) for item in data]
GetAllRead(t) ==
    /\ pc[t] = "read" /\ op[t].kind = "get_all"
    /\ ReadLock
    /\ seen' = [seen EXCEPT ![t] = LoadEnds(t, ReadData)]
    /\ data' = [data EXCEPT ![t] = ReadData]
    /\ Return(t, [op[t] EXCEPT !.all = [i \in 1..Len(ReadData) |-> TaskOfItem(ReadData[i])]])
    /\ UNCHANGED <<file, partial, lock, now, nextId, nOps, prev, file0, missing, userVars, catVars>>

\* TaskStorage(): another instance on the same path, with a lock of its own
StoreInit(t) ==
    /\ Call(t, Op("init", "store", 0, None, NoUpdates, None))
    /\ UNCHANGED <<file, partial, lock, data, now, nextId, file0, missing, userVars, catVars>>

\* a check that never finds the file
FileNeverExists == FALSE

\* self.file_path.exists()
FileExists == ~missing

\* _ensure_file: `if not self.file_path.exists()`
EnsureFile(t) ==
    /\ pc[t] = "ensure"
    /\ IF ~FileExists
       THEN /\ pc' = [pc EXCEPT ![t] = "ewrite"]
            /\ op' = op
       ELSE Return(t, op[t])
    /\ UNCHANGED <<file, partial, lock, data, now, nextId, nOps, prev, seen, file0,
                   missing, userVars, catVars>>

\* _ensure_file: self._write_data([]) opens the file under the new instance's lock,
\* which no other thread can hold
EnsureOpen(t) ==
    /\ pc[t] = "ewrite"
    /\ partial' = TRUE
    /\ missing' = FALSE
    /\ pc' = [pc EXCEPT ![t] = "edump"]
    /\ UNCHANGED <<file, lock, op, data, now, nextId, nOps, prev, seen, file0, userVars, catVars>>

\* _ensure_file: json.dump([]) at the start of the file, close; the constructor returns
EnsureDump(t) ==
    /\ pc[t] \in {"edump", "egarbled"}
    /\ IF pc[t] = "edump"
       THEN file' = <<>> /\ partial' = FALSE
       ELSE file' = file /\ partial' = TRUE
    /\ Return(t, op[t])
    /\ UNCHANGED <<lock, data, now, nextId, nOps, prev, seen, file0, missing, userVars, catVars>>

\* leaving `with self._lock:` releases the lock, on an exception too
Release(t) == NoThread

\* _write_data: open(self.file_path, 'w') raises OSError; the method raises
FailOpen(t) ==
    /\ pc[t] = "write"
    /\ WriteLock
    /\ lock' = Release(t)
    /\ Return(t, [op[t] EXCEPT !.exc = TRUE, !.resp = Status(op[t], 500)])
    /\ UNCHANGED <<file, partial, data, now, nextId, nOps, prev, seen, file0,
                   missing, userVars, catVars>>

\* _write_data: json.dump raises OSError (disk full) and leaves the file truncated
FailDump(t) ==
    /\ pc[t] = "dump"
    /\ lock = t
    /\ lock' = Release(t)
    /\ Return(t, [op[t] EXCEPT !.exc = TRUE, !.resp = Status(op[t], 500)])
    /\ UNCHANGED <<file, partial, data, now, nextId, nOps, prev, seen, file0,
                   missing, userVars, catVars>>

\* shutil.rmtree(DATA_DIR); DATA_DIR.mkdir(...) while the store instances live on
RemoveDataDir ==
    /\ \A t \in Threads : pc[t] = "idle"
    /\ missing' = TRUE /\ partial' = FALSE
    /\ umissing' = TRUE /\ upartial' = FALSE
    /\ categories' = <<>>
    /\ UNCHANGED <<file, lock, pc, op, data, now, nextId, nOps, prev, seen, file0,
                   ufile, ulock, uop, udata, cop>>

----------------------------------------------------------------------------
(* UserStorage: a second JSONStorage instance, on users.json *)

\* usernames callers ask for, and the user a caller builds for a name
Usernames == {"admin", "bob"}
NewUser(name) == User(name, get_password_hash("secret"), FALSE)

\* both stores behind one lock
SharedLock == lock = NoThread /\ ulock = NoThread

\* `with self._lock:` of user_storage: its own Lock
UserReadLock == ulock = NoThread
UserWriteLock == ulock = NoThread

\* the condition of users.json, and the collection it holds
UserDiskState ==
    IF umissing THEN "missing"
    ELSE IF upartial /\ ulock = NoThread THEN "truncated" ELSE "ok"
UserDisk == IF UserDiskState = "ok" THEN ufile ELSE <<>>

\* _read_data of user_storage
UserReadData == IF upartial \/ umissing THEN <<>> ELSE ufile

\* get_by_username on the collection read: the first user with the name, or None
FindUser(coll, name) ==
    LET S == {i \in 1..Len(coll) : coll[i].username = name}
    IN  IF S = {} THEN None ELSE Some(coll[CHOOSE i \in S : \A j \in S : i <= j])

\* thread t calls a method of user_storage, or sends a request of the auth router
UserCall(t, o) ==
    /\ pc[t] = "idle"
    /\ Started < MaxOps
    /\ uop' = [uop EXCEPT ![t] = [o EXCEPT !.pre = UserDisk, !.disk = UserDiskState]]
    /\ nOps' = [nOps EXCEPT ![t] = @ + 1]
    /\ pc' = [pc EXCEPT ![t] = IF o.via = "route" THEN "uauth" ELSE "uread"]
    /\ UNCHANGED <<taskVars, catVars, ufile, upartial, umissing, ulock, udata>>

\* thread t's call of user_storage returns
UserReturn(t, o) ==
    /\ uop' = [uop EXCEPT ![t] = o]
    /\ pc' = [pc EXCEPT ![t] = "idle"]

\* user_storage.get_by_username(username)
UserGetByUsername(t, name) == UserCall(t, UserOp("get_by_username", "store", name, None))

\* user_storage.exists(username)
UserExists(t, name) == UserCall(t, UserOp("exists", "store", name, None))

\* user_storage.create(user)
UserCreate(t, name) == UserCall(t, UserOp("create", "store", name, Some(NewUser(name))))

\* get_by_username / exists: users = self._read_data(); search
UserLookupRead(t) ==
    /\ pc[t] = "uread" /\ uop[t].kind \in {"get_by_username", "exists"}
    /\ UserReadLock
    /\ udata' = [udata EXCEPT ![t] = UserReadData]
    /\ UserReturn(t, [uop[t] EXCEPT !.ret = FindUser(UserReadData, uop[t].username),
                                    !.ok = FindUser(UserReadData, uop[t].username) # None])
    /\ UNCHANGED <<taskVars, catVars, nOps, ufile, upartial, umissing, ulock>>

\* create: users = self._read_data(); users.append(user.model_dump())
UserCreateRead(t) ==
    /\ pc[t] = "uread" /\ uop[t].kind \in {"create", "register"}
    /\ UserReadLock
    /\ udata' = [udata EXCEPT ![t] = Append(UserReadData, uop[t].user[1])]
    /\ pc' = [pc EXCEPT ![t] = "uwrite"]
    /\ UNCHANGED <<taskVars, catVars, nOps, ufile, upartial, umissing, ulock, uop>>

\* _write_data of user_storage: take the lock and open the file with 'w'
UserOpenWrite(t) ==
    /\ pc[t] = "uwrite"
    /\ UserWriteLock
    /\ ulock' = t
    /\ upartial' = TRUE
    /\ umissing' = FALSE
    /\ pc' = [pc EXCEPT ![t] = "udump"]
    /\ UNCHANGED <<taskVars, catVars, nOps, ufile, uop, udata>>

\* _write_data of user_storage: json.dump, close, release; create returns the user
UserDumpWrite(t) ==
    /\ pc[t] = "udump"
    /\ ulock = t
    /\ ufile' = udata[t]
    /\ upartial' = FALSE
    /\ ulock' = NoThread
    /\ UserReturn(t, [uop[t] EXCEPT !.ret = uop[t].user,
                                    !.resp = IF uop[t].via = "route" THEN 200 ELSE 0])
    /\ UNCHANGED <<taskVars, catVars, nOps, umissing, udata>>

\* _write_data of user_storage: json.dump raises OSError and leaves the file truncated
UserFailDump(t) ==
    /\ pc[t] = "udump"
    /\ ulock = t
    /\ ulock' = Release(t)
    /\ UserReturn(t, [uop[t] EXCEPT !.exc = TRUE,
                                    !.resp = IF uop[t].via = "route" THEN 500 ELSE 0])
    /\ UNCHANGED <<taskVars, catVars, nOps, ufile, upartial, umissing, udata>>

UserStep(t) ==
    \/ UserLookupRead(t)
    \/ UserCreateRead(t)
    \/ UserOpenWrite(t)
    \/ UserDumpWrite(t)

\* one caller that constructs stores on the path of a store it uses
InitSeqNext ==
    \/ RemoveDataDir
    \/ \E t \in {"t1"} :
          \/ StoreInit(t)
          \/ \E p \in {P1} : StoreCreate(t, p)
          \/ EnsureFile(t) \/ EnsureOpen(t) \/ EnsureDump(t)
          \/ CreateRead(t) \/ OpenWrite(t) \/ DumpWrite(t) \/ FailDump(t)

InitSeqSpec == Init /\ [][InitSeqNext]_vars

\* threads that construct stores on the path of a store other threads use
InitNext ==
    \/ RemoveDataDir
    \/ \E t \in Threads :
          \/ StoreInit(t)
          \/ \E p \in {P1} : StoreCreate(t, p)
          \/ EnsureFile(t) \/ EnsureOpen(t) \/ EnsureDump(t)
          \/ CreateRead(t) \/ OpenWrite(t) \/ DumpWrite(t)

InitSpec == Init /\ [][InitNext]_vars

\* threads calling the task store and the user store
StoresNext ==
    \E t \in Threads :
        \/ \E p \in {P1} : StoreCreate(t, p)
        \/ \E id \in {1} : StoreGet(t, id)
        \/ \E name \in {"bob"} : UserCreate(t, name) \/ UserGetByUsername(t, name)
        \/ CreateRead(t) \/ GetRead(t) \/ OpenWrite(t) \/ DumpWrite(t)
        \/ UserStep(t)

StoresSpec == Init /\ [][StoresNext]_vars

\* the calls of the threads whose progress is followed
LiveCall(t) ==
    \/ \E p \in {P1} : StoreCreate(t, p)
    \/ \E u \in {Updates({"title"}, [Unset EXCEPT !.title = Some("X")])} : StoreUpdate(t, 1, u)
    \/ \E c \in StoreColumns : StoreMove(t, 1, c, None)
    \/ StoreDelete(t, 1)
    \/ StoreGet(t, 1)

\* a step of thread t inside a call: the scheduler runs a thread that can take one
ThreadStep(t) == StoreStep(t) \/ FailOpen(t) \/ FailDump(t)

\* some thread can take a step inside a call
SomeStep == \E t \in Threads : ThreadStep(t)

\* threads calling the task store, with failing writes
LiveNext == \E t \in Threads : LiveCall(t) \/ ThreadStep(t)

\* a thread that can keep taking its step takes it
LiveSpec == Init /\ [][LiveNext]_vars /\ \A t \in Threads : WF_vars(ThreadStep(t))

----------------------------------------------------------------------------
(* POST /api/auth/register (app/routes/auth.py) *)

\* the accounts of the test fixtures, besides the default admin
Callers == {"admin", "admin2", "testuser"}
AdminUser(name) == User(name, get_password_hash("secret"), TRUE)

\* users.json when requests arrive: after bootstrap, and with the accounts above
UserFiles ==
    {InitialUsers,
     InitialUsers \o <<NewUser("testuser")>>,
     InitialUsers \o <<AdminUser("admin2"), NewUser("testuser")>>}

\* handlers that run on worker threads, whatever the other requests do
LoopFreeThreads(t) == TRUE

\* the `async def` handlers have no await in their bodies: the event loop starts a
\* handler only when no other handler is between its first and its last statement
LoopFree(t) ==
    \A u \in Threads \ {t} :
        ~(uop[u].via = "route"
          /\ pc[u] \in {"uread", "uwrite", "udump", "udelread", "upwread"})

\* a request of the auth router arrives with the token of `caller`
Request(t, caller, o) == UserCall(t, [o EXCEPT !.caller = caller])

\* Depends(get_current_active_user): the user stored under the token's username,
\* or 401; the handler starts with it as current_user
Authenticate(t) ==
    /\ pc[t] = "uauth"
    /\ UserReadLock
    /\ LET me == FindUser(UserReadData, uop[t].caller)
       IN  IF me = None
           THEN UserReturn(t, [uop[t] EXCEPT !.resp = 401])
           ELSE /\ uop' = [uop EXCEPT ![t].me = me]
                /\ pc' = [pc EXCEPT ![t] =
                              CASE uop[t].kind = "register" -> "uexists"
                                [] uop[t].kind = "list_users" -> "ulist"
                                [] uop[t].kind = "delete_user" -> "udelcheck"
                                [] OTHER -> "upw"]
    /\ UNCHANGED <<taskVars, catVars, nOps, ufile, upartial, umissing, ulock, udata>>

\* a register request arrives
register(t, caller, name) ==
    Request(t, caller, UserOp("register", "route", name, Some(NewUser(name))))

\* a store that holds no username
existsNever(coll, name) == FALSE

\* user_storage.exists(username) on the collection read
exists(coll, name) == FindUser(coll, name) # None

\* register: `if user_storage.exists(user_data.username)` answers 400
RegisterExists(t) ==
    /\ pc[t] = "uexists"
    /\ LoopFree(t)
    /\ UserReadLock
    /\ IF exists(UserReadData, uop[t].username)
       THEN UserReturn(t, [uop[t] EXCEPT !.ok = TRUE, !.resp = 400])
       ELSE /\ pc' = [pc EXCEPT ![t] = "uread"]
            /\ uop' = uop
    /\ UNCHANGED <<taskVars, catVars, nOps, ufile, upartial, umissing, ulock, udata>>

\* register requests that arrive while others are being handled
RegisterNext ==
    \E t \in Threads :
        \/ \E caller \in Callers, name \in Usernames : register(t, caller, name)
        \/ Authenticate(t)
        \/ RegisterExists(t)
        \/ UserCreateRead(t) \/ UserOpenWrite(t) \/ UserDumpWrite(t)

RegisterSpec == InitWith({<<>>}, UserFiles) /\ [][RegisterNext]_vars

----------------------------------------------------------------------------
(* GET /api/auth/users, DELETE /api/auth/users/{username},
   POST /api/auth/change-password (app/routes/auth.py) *)

\* a router that lets every caller manage users
IsAdminAlways(user) == TRUE

\* `current_user.is_admin or current_user.username == "admin"`
IsAdmin(user) == user.is_admin \/ user.username = "admin"

\* a router that lets a caller delete its own account
IsSelfNever(username, user) == FALSE

\* `username == current_user.username`
IsSelf(username, user) == username = user.username

\* a store whose update also clears the admin flag
ReplaceUserDemoting(coll, user) ==
    [i \in 1..Len(coll) |->
        IF coll[i].username = user.username
        THEN [user EXCEPT !.is_admin = FALSE] ELSE coll[i]]

\* user_storage.update(user): the record stored under user.username is replaced
ReplaceUser(coll, user) ==
    [i \in 1..Len(coll) |-> IF coll[i].username = user.username THEN user ELSE coll[i]]

\* user_storage.delete(username): the collection without the records of the name
WithoutUser(coll, name) == SelectSeq(coll, LAMBDA u : u.username # name)

\* the passwords of PasswordChange bodies
Passwords == {"changeme", "secret"}

list_users(t, caller) == Request(t, caller, UserOp("list_users", "route", "", None))

delete_user(t, caller, username) ==
    Request(t, caller, UserOp("delete_user", "route", username, None))

change_password(t, caller, current, new) ==
    Request(t, caller, [UserOp("change_password", "route", caller, None)
                            EXCEPT !.current = current, !.new = new])

\* list_users: 403 unless the caller is an admin, else user_storage.list_all()
ListUsers(t) ==
    /\ pc[t] = "ulist"
    /\ LoopFree(t)
    /\ UserReadLock
    /\ IF ~IsAdmin(uop[t].me[1])
       THEN UserReturn(t, [uop[t] EXCEPT !.resp = 403])
       ELSE UserReturn(t, [uop[t] EXCEPT !.resp = 200, !.ok = TRUE, !.all = UserReadData])
    /\ UNCHANGED <<taskVars, catVars, nOps, ufile, upartial, umissing, ulock, udata>>

\* delete_user: 403, 400 for "admin", 400 for the caller itself, 404 if not stored
DeleteUserCheck(t) ==
    /\ pc[t] = "udelcheck"
    /\ LoopFree(t)
    /\ UserReadLock
    /\ LET resp == CASE ~IsAdmin(uop[t].me[1]) -> 403
                     [] uop[t].username = "admin" -> 400
                     [] IsSelf(uop[t].username, uop[t].me[1]) -> 400
                     [] ~exists(UserReadData, uop[t].username) -> 404
                     [] OTHER -> 0
       IN  IF resp # 0
           THEN UserReturn(t, [uop[t] EXCEPT !.resp = resp])
           ELSE pc' = [pc EXCEPT ![t] = "udelread"] /\ uop' = uop
    /\ UNCHANGED <<taskVars, catVars, nOps, ufile, upartial, umissing, ulock, udata>>

\* delete_user: user_storage.delete(username) reads the users and drops the name
UserDeleteRead(t) ==
    /\ pc[t] = "udelread"
    /\ UserReadLock
    /\ udata' = [udata EXCEPT ![t] = WithoutUser(UserReadData, uop[t].username)]
    /\ pc' = [pc EXCEPT ![t] = "uwrite"]
    /\ UNCHANGED <<taskVars, catVars, nOps, ufile, upartial, umissing, ulock, uop>>

\* change_password: 400 unless the current password verifies against current_user,
\* else current_user.hashed_password = get_password_hash(new_password)
ChangePassword(t) ==
    /\ pc[t] = "upw"
    /\ LoopFree(t)
    /\ IF ~verify_password(uop[t].current, uop[t].me[1].hashed_password)
       THEN UserReturn(t, [uop[t] EXCEPT !.resp = 400])
       ELSE /\ pc' = [pc EXCEPT ![t] = "upwread"]
            /\ uop' = [uop EXCEPT ![t].user =
                          Some([uop[t].me[1] EXCEPT
                                   !.hashed_password = get_password_hash(uop[t].new)])]
    /\ UNCHANGED <<taskVars, catVars, nOps, ufile, upartial, umissing, ulock, udata>>

\* change_password: user_storage.update(current_user) reads the users and replaces
\* the caller's record; a caller that is no longer stored leaves the file alone
UserUpdateRead(t) ==
    /\ pc[t] = "upwread"
    /\ UserReadLock
    /\ IF exists(UserReadData, uop[t].user[1].username)
       THEN /\ udata' = [udata EXCEPT ![t] = ReplaceUser(UserReadData, uop[t].user[1])]
            /\ pc' = [pc EXCEPT ![t] = "uwrite"]
            /\ uop' = uop
       ELSE /\ UserReturn(t, [uop[t] EXCEPT !.resp = 200])
            /\ udata' = udata
    /\ UNCHANGED <<taskVars, catVars, nOps, ufile, upartial, umissing, ulock>>

\* user management requests that arrive while others are being handled
AuthNext ==
    \E t \in Threads :
        \/ \E caller \in Callers :
              \/ list_users(t, caller)
              \/ \E username \in Callers : delete_user(t, caller, username)
              \/ \E current \in Passwords : change_password(t, caller, current, "new")
        \/ Authenticate(t)
        \/ ListUsers(t)
        \/ DeleteUserCheck(t) \/ UserDeleteRead(t)
        \/ ChangePassword(t) \/ UserUpdateRead(t)
        \/ UserOpenWrite(t) \/ UserDumpWrite(t)

AuthSpec == InitWith({<<>>}, UserFiles) /\ [][AuthNext]_vars

----------------------------------------------------------------------------
(* The category store, and GET /api/tasks/categories (app/routes/tasks.py) *)

\* calls of the category store and of the listing a thread makes
MaxCatOps == 3

\* category names, and their lexicographic order
CategoryNames == {"Apple", "Stored", "Work"}
CategoryOrder == <<"Apple", "Stored", "Work">>

\* sorted(names)
sorted(names) == SelectSeq(CategoryOrder, LAMBDA c : c \in names)

\* the names in a sequence
Range(seq) == {seq[i] : i \in 1..Len(seq)}

\* thread t's call of the category store or of the listing ends with this result
CatCall(t, o) ==
    /\ pc[t] = "idle"
    /\ cop[t].n < MaxCatOps
    /\ cop' = [cop EXCEPT ![t] = [o EXCEPT !.pre = categories, !.n = cop[t].n + 1]]
    /\ UNCHANGED <<pc, nOps>>

\* a category store that appends without looking
CatAddAgain(t, name) ==
    /\ CatCall(t, [CatOp("add", name) EXCEPT !.ok = TRUE])
    /\ categories' = Append(categories, name)
    /\ UNCHANGED <<taskVars, userVars>>

\* category_storage.add(name): False if the name is stored, else store it
CatAdd(t, name) ==
    /\ CatCall(t, [CatOp("add", name) EXCEPT !.ok = name \notin Range(categories)])
    /\ categories' = IF name \in Range(categories) THEN categories
                     ELSE Append(categories, name)
    /\ UNCHANGED <<taskVars, userVars>>

\* a category store whose delete also clears the category of the tasks that use it
CatDeleteCascade(t, name) ==
    /\ CatCall(t, [CatOp("delete", name) EXCEPT !.ok = name \in Range(categories)])
    /\ categories' = SelectSeq(categories, LAMBDA c : c # name)
    /\ file' = [i \in 1..Len(file) |->
                  IF file[i].category = Some(name)
                  THEN [file[i] EXCEPT !.category = None] ELSE file[i]]
    /\ UNCHANGED <<partial, missing, lock, op, data, now, nextId, prev, seen, file0,
                   userVars>>

\* category_storage.delete(name): False if the name is absent, else remove it
CatDelete(t, name) ==
    /\ CatCall(t, [CatOp("delete", name) EXCEPT !.ok = name \in Range(categories)])
    /\ categories' = SelectSeq(categories, LAMBDA c : c # name)
    /\ UNCHANGED <<taskVars, userVars>>

\* category_storage.exists(name)
CatExists(t, name) ==
    /\ CatCall(t, [CatOp("exists", name) EXCEPT !.ok = name \in Range(categories)])
    /\ UNCHANGED <<taskVars, userVars, categories>>

\* category_storage.get_all(): the stored names, sorted
CatGetAll(t) ==
    /\ CatCall(t, [CatOp("get_all", "") EXCEPT !.list = sorted(Range(categories))])
    /\ UNCHANGED <<taskVars, userVars, categories>>

\* set(t.category for t in tasks if t.category)
TaskCategories(tasks) ==
    {tasks[i].category[1] : i \in {j \in 1..Len(tasks) : tasks[j].category \notin {None, Some("")}}}

\* get_categories: tasks = task_storage.get_all(); the sorted set of their categories
get_categories(t) ==
    /\ ReadLock
    /\ CatCall(t, [CatOp("get_categories", "") EXCEPT
                      !.tasks = ReadData,
                      !.list = sorted(TaskCategories(
                                   [i \in 1..Len(ReadData) |-> TaskOfItem(ReadData[i])]))])
    /\ UNCHANGED <<taskVars, userVars, categories>>

\* one caller of the category store, the listing and the task store
CatNext ==
    \E t \in {"t1"} :
        \/ \E name \in CategoryNames : CatAdd(t, name) \/ CatDelete(t, name) \/ CatExists(t, name)
        \/ CatGetAll(t)
        \/ get_categories(t)
        \/ \E p \in {P2} : StoreCreate(t, p)
        \/ \E id \in TaskIds : StoreDelete(t, id)
        \/ CreateRead(t) \/ DeleteRead(t) \/ OpenWrite(t) \/ DumpWrite(t)

CatSpec == Init /\ [][CatNext]_vars

----------------------------------------------------------------------------
(* The views: get_by_column, GET /api/tasks, GET /api/tasks/board *)

\* a board that lists every task under every column
boardOfAll(tasks) == [col \in ColumnSet |-> tasks]

\* board = {col: [] for col in COLUMNS}; each task is appended to board[task.column]
\* if its column is a key
board(tasks) == [col \in ColumnSet |-> SelectSeq(tasks, LAMBDA task : task.column = col)]

\* storage.get_by_column(column)
StoreGetByColumn(t, column) ==
    /\ Call(t, [Op("get_by_column", "store", 0, None, NoUpdates, None)
                  EXCEPT !.column = Some(column)])
    /\ UNCHANGED <<file, partial, lock, data, now, nextId, file0, missing, userVars, catVars>>

\* GET /api/tasks?column=...
get_tasks(t, column) ==
    /\ Call(t, [Op("get_tasks", "route", 0, None, NoUpdates, None)
                  EXCEPT !.column = Some(column)])
    /\ UNCHANGED <<file, partial, lock, data, now, nextId, file0, missing, userVars, catVars>>

\* GET /api/tasks/board
get_board(t) ==
    /\ Call(t, Op("get_board", "route", 0, None, NoUpdates, None))
    /\ UNCHANGED <<file, partial, lock, data, now, nextId, file0, missing, userVars, catVars>>

\* a view that writes an empty collection where it finds no file
ViewRepair(t) ==
    /\ pc[t] = "read" /\ op[t].kind \in {"get_by_column", "get_tasks", "get_board"}
    /\ ReadLock
    /\ seen' = [seen EXCEPT ![t] = LoadEnds(t, ReadData)]
    /\ data' = [data EXCEPT ![t] = ReadData]
    /\ missing' = FALSE
    /\ file' = IF missing THEN <<>> ELSE file
    /\ Return(t, [op[t] EXCEPT !.resp = Status(op[t], 200)])
    /\ UNCHANGED <<partial, lock, now, nextId, nOps, prev, file0, userVars, catVars>>

\* the views: tasks = get_all(); then the filter `t.column == column`, or the board
ViewRead(t) ==
    /\ pc[t] = "read" /\ op[t].kind \in {"get_by_column", "get_tasks", "get_board"}
    /\ ReadLock
    /\ seen' = [seen EXCEPT ![t] = LoadEnds(t, ReadData)]
    /\ data' = [data EXCEPT ![t] = ReadData]
    /\ LET tasks == [i \in 1..Len(ReadData) |-> TaskOfItem(ReadData[i])]
       IN  Return(t, IF op[t].kind = "get_board"
                     THEN [op[t] EXCEPT !.board = board(tasks), !.resp = 200]
                     ELSE [op[t] EXCEPT
                              !.all = IF op[t].column[1] = "" THEN tasks
                                      ELSE SelectSeq(tasks, LAMBDA task :
                                                       task.column = op[t].column[1]),
                              !.resp = Status(op[t], 200)])
    /\ UNCHANGED <<file, partial, lock, now, nextId, nOps, prev, file0, missing, userVars, catVars>>

\* requests that change tasks and requests for the board, one at a time
BoardNext ==
    \E t \in {"t1"} :
        \/ \E id \in TaskIds, body \in UpdateBodies : update_task(t, id, body)
        \/ \E id \in TaskIds, c \in RequestColumns : move_task(t, id, c, None)
        \/ get_board(t)
        \/ CheckRead(t) \/ UpdateRead(t) \/ OpenWrite(t) \/ DumpWrite(t)
        \/ ViewRead(t)

BoardSpec == Init /\ [][BoardNext]_vars

\* one caller of the read operations, with failing writes and a removed data directory
ReadNext ==
    \/ RemoveDataDir
    \/ \E t \in {"t1"} :
          \/ \E p \in {P2} : StoreCreate(t, p)
          \/ CreateRead(t) \/ OpenWrite(t) \/ DumpWrite(t) \/ FailDump(t)
          \/ StoreGetAll(t)
          \/ \E id \in TaskIds : StoreGet(t, id) \/ get_task(t, id)
          \/ \E c \in {"", "Backlog"} : StoreGetByColumn(t, c) \/ get_tasks(t, c)
          \/ get_board(t)
          \/ get_categories(t)
          \/ \E name \in Usernames : UserGetByUsername(t, name) \/ UserExists(t, name)
          \/ GetAllRead(t) \/ GetRead(t) \/ ViewRead(t) \/ UserLookupRead(t)

ReadSpec == Init /\ [][ReadNext]_vars

\* one caller of both stores, with failing writes and a removed data directory
FaultNext ==
    \/ RemoveDataDir
    \/ \E t \in {"t1"} :
          \/ \E p \in {P1} : StoreCreate(t, p)
          \/ \E id \in TaskIds : StoreGet(t, id)
          \/ StoreGetAll(t)
          \/ \E name \in Usernames :
                UserGetByUsername(t, name) \/ UserExists(t, name) \/ UserCreate(t, name)
          \/ CreateRead(t) \/ GetRead(t) \/ GetAllRead(t)
          \/ OpenWrite(t) \/ DumpWrite(t) \/ FailDump(t)
          \/ UserStep(t) \/ UserFailDump(t)

FaultSpec == Init /\ [][FaultNext]_vars

----------------------------------------------------------------------------
(* Properties *)

Mutating == {"create", "update", "move", "delete"}

\* thread t has made exactly one call and it has returned
DoneOnce(t) == pc[t] = "idle" /\ nOps[t] = 1

\* the collection after running call o alone on the collection coll
RunAlone(o, coll) ==
    CASE o.kind = "create" -> Append(coll, task_dict(o.task[1]))
      [] o.kind \in {"update", "move"} ->
            IF IndexOf(coll, o.id) = 0 THEN coll
            ELSE UpdatedData(coll, IndexOf(coll, o.id), o.updates, o.ts)
      [] o.kind = "delete" -> WithoutId(coll, o.id)
      [] OTHER -> coll

\* the collections reached from coll by running the calls of the threads in S one after the other
RECURSIVE SerialResults(_, _)
SerialResults(S, coll) ==
    IF S = {} THEN {coll}
    ELSE UNION {SerialResults(S \ {t}, RunAlone(op[t], coll)) : t \in S}

\* C1: when every thread ran one mutating operation, all concurrently, the persisted
\* collection is the result of running them one after the other in some order
C1_SerialOutcome ==
    (\A t \in Threads : DoneOnce(t) /\ op[t].kind \in Mutating)
        => file \in SerialResults(Threads, file0)

\* C2: N concurrent creates on an empty store leave N records with N distinct ids
C2_AllCreatesStored ==
    (file0 = <<>> /\ \A t \in Threads : DoneOnce(t) /\ op[t].kind = "create")
        => /\ Len(file) = Cardinality(Threads)
           /\ Cardinality({file[i].id : i \in 1..Len(file)}) = Cardinality(Threads)

\* the stored record of o's id carries every field o's update wrote
CarriesUpdate(coll, o) ==
    /\ IndexOf(coll, o.id) # 0
    /\ \A k \in o.updates.keys :
          o.updates.val[k] # None =>
              coll[IndexOf(coll, o.id)][k] = StoredValue(k, o.updates.val[k][1])

\* C3: two concurrent updates of two different ids both persist
C3_BothUpdatesPersist ==
    \A t, u \in Threads :
        (/\ t # u /\ DoneOnce(t) /\ DoneOnce(u)
         /\ op[t].kind = "update" /\ op[u].kind = "update"
         /\ op[t].id # op[u].id
         /\ op[t].ret # None /\ op[u].ret # None)
            => CarriesUpdate(file, op[t]) /\ CarriesUpdate(file, op[u])

\* C4: two concurrent updates of the same id are applied one after the other: the
\* stored record is one update applied to the original record and then the other
C4_SameIdSequential ==
    \A t, u \in Threads :
        (/\ t # u /\ DoneOnce(t) /\ DoneOnce(u)
         /\ op[t].kind = "update" /\ op[u].kind = "update"
         /\ op[t].id = op[u].id
         /\ op[t].ret # None /\ op[u].ret # None)
            => LET orig == file0[IndexOf(file0, op[t].id)]
                   tu == ApplyUpdates(ApplyUpdates(orig, op[t].updates, op[t].ts),
                                      op[u].updates, op[u].ts)
                   ut == ApplyUpdates(ApplyUpdates(orig, op[u].updates, op[u].ts),
                                      op[t].updates, op[t].ts)
               IN  /\ IndexOf(file, op[t].id) # 0
                   /\ file[IndexOf(file, op[t].id)] \in {tu, ut}

\* C5: a load returns a complete collection the file held while the load ran: the one
\* from before a concurrent save or the one the save wrote
C5_NoPartialRead ==
    \A t \in Threads : seen[t].done => seen[t].got \in seen[t].from

\* a load returned while a save of another thread completed during it
C5_Witness ==
    \E t \in Threads : seen[t].done /\ Cardinality(seen[t].from) >= 2

\* C6: no two stored task records have the same id
C6_UniqueIds ==
    \A i, j \in 1..Len(file) : i # j => file[i].id # file[j].id

\* two records are stored after two creates ran
C6_Witness ==
    /\ Len(file) >= 2
    /\ \E t, u \in Threads : t # u /\ DoneOnce(t) /\ DoneOnce(u)
                             /\ op[t].kind = "create" /\ op[u].kind = "create"

\* the column a create, update or move request carries (None when it carries none)
RequestColumn(o) == o.updates.val.column

\* C7: the column of every stored task is one of the configured columns
C7_ColumnsConfigured ==
    \A i \in 1..Len(file) : file[i].column \in ColumnSet

\* C8: a create, update or move request whose column is not configured ends in an
\* error and leaves the persisted collection as it was
C8_InvalidColumnRejected ==
    \A t \in Threads :
        (/\ pc[t] = "idle" /\ op[t].via = "route"
         /\ op[t].kind \in {"create", "update", "move"}
         /\ RequestColumn(op[t]) # None
         /\ RequestColumn(op[t])[1] \notin ColumnSet)
            => op[t].resp >= 400 /\ file = op[t].pre

\* C9: get(t.id) right after create(t) returns the fields of t
C9_RoundTrip ==
    \A t \in Threads :
        (/\ pc[t] = "idle" /\ op[t].kind = "get" /\ prev[t].kind = "create"
         /\ op[t].id = prev[t].task[1].id)
            => /\ op[t].ret # None
               /\ LET r == op[t].ret[1]
                      c == prev[t].task[1]
                  IN  /\ r.id = c.id /\ r.title = c.title
                      /\ r.description = c.description /\ r.priority = c.priority
                      /\ r.category = c.category /\ r.due_date = c.due_date
                      /\ r.column = c.column
                      /\ r.created_at = c.created_at /\ r.updated_at = c.updated_at

\* get returned the task that was just created with a due date
C9_Witness ==
    \E t \in Threads :
        /\ pc[t] = "idle" /\ op[t].kind = "get" /\ prev[t].kind = "create"
        /\ op[t].id = prev[t].task[1].id
        /\ prev[t].task[1].due_date # None
        /\ op[t].ret # None

\* C10: delete returns true exactly when the id is stored, get is then not-found,
\* and a second delete returns false and leaves the collection unchanged
C10_DeleteTwice ==
    \A t \in Threads :
        /\ (pc[t] = "idle" /\ op[t].kind = "delete")
              => /\ op[t].ok <=> IndexOf(op[t].pre, op[t].id) # 0
                 /\ op[t].ok => GetById(file, op[t].id) = None
        /\ (/\ pc[t] = "idle" /\ op[t].kind = "get"
            /\ prev[t].kind = "delete" /\ prev[t].ok /\ prev[t].id = op[t].id)
              => op[t].ret = None
        /\ (/\ pc[t] = "idle" /\ op[t].kind = "delete"
            /\ prev[t].kind = "delete" /\ prev[t].id = op[t].id)
              => ~op[t].ok /\ file = op[t].pre

\* a second delete of an id returned after the first one removed the record
C10_Witness ==
    \E t \in Threads :
        /\ pc[t] = "idle" /\ op[t].kind = "delete"
        /\ prev[t].kind = "delete" /\ prev[t].id = op[t].id /\ prev[t].ok


----------------------------------------------------------------------------
(* Updates of one caller (SeqSpec) *)

\* thread t's call of one of these kinds has returned
Finished(t, kinds) == pc[t] = "idle" /\ op[t].kind \in kinds /\ ~op[t].exc

\* the fields a stored task has
TaskFields == DOMAIN Stored(P1, 1)

\* C11: an update of a stored task changes only the fields it supplies and
\* updated_at: the task's other fields, the other tasks and their order stay as
\* they were when the update was called.
C11_PartialUpdate ==
    \A t \in Threads :
        Finished(t, {"update"}) /\ op[t].ret # None =>
            LET i == IndexOf(op[t].pre, op[t].id)
            IN  /\ Len(file) = Len(op[t].pre)
                /\ \A j \in 1..Len(file) : j # i => file[j] = op[t].pre[j]
                /\ \A k \in TaskFields \ (op[t].updates.keys \cup {"updated_at"}) :
                       file[i][k] = op[t].pre[i][k]
                /\ op[t].ret = Some(TaskOfItem(file[i]))

\* an update of two fields of a task that carries a description and a due date,
\* stored next to another task
C11_Witness ==
    \E t \in Threads :
        /\ Finished(t, {"update"}) /\ op[t].ret # None
        /\ op[t].updates.keys = {"title", "priority"}
        /\ Len(file) = 2
        /\ op[t].ret[1].description # None /\ op[t].ret[1].due_date # None
        /\ op[t].ret[1].title = "Z"


\* the fields of a task that may be empty
OptionalFields == {"description", "category", "due_date"}

\* C12: an update request that carries a field explicitly as null stores the
\* field as empty, and a field the request omits keeps its stored value.
C12_ExplicitNullClears ==
    \A t \in Threads :
        Finished(t, {"update"}) /\ op[t].via = "route" /\ op[t].ret # None =>
            LET i == IndexOf(op[t].pre, op[t].id)
            IN  \A k \in OptionalFields :
                    /\ k \in op[t].updates.keys /\ op[t].updates.val[k] = None
                           => file[i][k] = None
                    /\ k \notin op[t].updates.keys => file[i][k] = op[t].pre[i][k]


\* no item of the collection has this id
Unknown(coll, id) == \A i \in 1..Len(coll) : coll[i].id # id

\* C13: update and move of an id no stored task has report not-found (the store
\* returns None, the route answers 404) and leave the stored collection as it was.
C13_UnknownIdNotFound ==
    \A t \in Threads :
        Finished(t, {"update", "move"}) /\ Unknown(op[t].pre, op[t].id) =>
            /\ file = op[t].pre
            /\ op[t].ret = None
            /\ op[t].via = "route" => op[t].resp = 404

\* a request to move an unknown task was answered after a direct update of an
\* unknown task returned, on a store that holds another task
C13_Witness ==
    \E t \in Threads :
        /\ Finished(t, {"move"}) /\ op[t].via = "route" /\ op[t].resp = 404
        /\ Unknown(op[t].pre, op[t].id)
        /\ prev[t].kind = "update" /\ prev[t].via = "store" /\ prev[t].ret = None
        /\ Unknown(prev[t].pre, prev[t].id)
        /\ Len(file) = 1


\* the ids of a collection, in stored order
IdsOf(coll) == [i \in 1..Len(coll) |-> coll[i].id]

\* C14: move(id, column, position) has the effect and the result of
\* update(id, {column}) whatever the position: the stored task gets the target
\* column, the stored order is kept, and a following get(id) returns that column.
C14_MoveIsColumnUpdate ==
    \A t \in Threads :
        /\ Finished(t, {"move"}) /\ ~Unknown(op[t].pre, op[t].id) =>
              LET i == IndexOf(op[t].pre, op[t].id)
                  u == Updates({"column"}, [Unset EXCEPT !.column = op[t].column])
              IN  /\ file = UpdatedData(op[t].pre, i, u, op[t].ts)
                  /\ op[t].ret = Some(TaskOfItem(file[i]))
                  /\ file[i].column = op[t].column[1]
                  /\ IdsOf(file) = IdsOf(op[t].pre)
        /\ Finished(t, {"move"}) /\ Unknown(op[t].pre, op[t].id) =>
              op[t].ret = None /\ file = op[t].pre
        /\ ( /\ Finished(t, {"get"})
             /\ prev[t].kind = "move" /\ prev[t].ret # None /\ prev[t].id = op[t].id )
              => op[t].ret # None /\ op[t].ret[1].column = prev[t].column[1]

\* a get that follows a move with a position, of the second of two stored tasks
C14_Witness ==
    \E t \in Threads :
        /\ Finished(t, {"get"}) /\ op[t].ret # None
        /\ prev[t].kind = "move" /\ prev[t].id = op[t].id /\ prev[t].ret # None
        /\ prev[t].pos = Some(0)
        /\ IndexOf(file, op[t].id) = 2
        /\ prev[t].pre[2].column # "Done"


----------------------------------------------------------------------------
(* Missing and truncated files (FaultSpec) *)

\* C15: a load of a store whose file is missing or cannot be deserialized gives
\* the empty collection and does not raise: get_all returns [], get_by_id and
\* get_by_username return None, exists returns False.
C15_UnreadableFileIsEmpty ==
    \A t \in Threads :
        /\ ( /\ pc[t] = "idle" /\ op[t].kind \in {"get", "get_all"}
             /\ op[t].disk \in {"missing", "truncated"} )
              => ~op[t].exc /\ op[t].ret = None /\ op[t].all = <<>>
        /\ ( /\ pc[t] = "idle" /\ uop[t].kind \in {"get_by_username", "exists"}
             /\ uop[t].disk \in {"missing", "truncated"} )
              => ~uop[t].exc /\ uop[t].ret = None /\ ~uop[t].ok

\* get_all and exists("admin") have returned after the data directory, which
\* held two tasks and the admin, was removed
C15_Witness ==
    \E t \in Threads :
        /\ pc[t] = "idle"
        /\ op[t].kind = "get_all" /\ op[t].disk = "missing"
        /\ uop[t].kind = "exists" /\ uop[t].username = "admin" /\ uop[t].disk = "missing"
        /\ Len(file0) = 2


----------------------------------------------------------------------------
(* Construction of a store (InitSeqSpec, InitSpec) *)

\* thread t's call of this kind returns in this step
Returns(t, kind) == op[t].kind = kind /\ pc[t] # "idle" /\ pc'[t] = "idle"

\* C16: constructing a store leaves an existing file's collection as it is and
\* leaves an absent file holding the empty collection, so that a construction
\* that follows another changes nothing.
C16_InitIdempotent ==
    [][\A t \in Threads :
          Returns(t, "init") =>
              IF op[t].disk = "missing"
              THEN DiskState' = "ok" /\ Disk' = <<>>
              ELSE DiskState' = op[t].disk /\ Disk' = op[t].pre /\ file' = file]_vars

\* a store was constructed over an absent file and then constructed again
C16_Witness ==
    \E t \in Threads :
        /\ pc[t] = "idle" /\ op[t].kind = "init" /\ op[t].disk = "ok"
        /\ prev[t].kind = "init" /\ prev[t].disk = "missing"
        /\ Disk = <<>> /\ Len(file0) > 0


\* the collection holds a record with this id
Holds(coll, id) == \E i \in 1..Len(coll) : coll[i].id = id

\* C17: with several instances on one path, the construction of an instance
\* never takes out of the file the record of a create that has returned.
C17_InitKeepsCreated ==
    [][\A t, u \in Threads :
          ( /\ Returns(u, "init")
            /\ pc[t] = "idle" /\ op[t].kind = "create" /\ ~op[t].exc
            /\ Holds(Disk, op[t].id) )
          => Holds(Disk', op[t].id)]_vars


----------------------------------------------------------------------------
(* The two stores (StoresSpec) *)

\* where a thread is inside a call of the task store, and of the user store
TaskPcs == {"check", "read", "write", "dump", "ensure", "ewrite", "edump", "egarbled"}
UserPcs == {"uexists", "uread", "uwrite", "udump"}

\* thread t takes a step of a call of the task store / of the user store
TaskStoreStep(t) == pc'[t] # pc[t] /\ (pc[t] \in TaskPcs \/ pc'[t] \in TaskPcs)
UserStoreStep(t) == pc'[t] # pc[t] /\ (pc[t] \in UserPcs \/ pc'[t] \in UserPcs)

\* C18: each store has a lock of its own: a call of the user store that waits for
\* no user-store lock can take its step whoever holds the task store's lock, and a
\* step of a call of one store leaves the other store's file as it is.
C18_IndependentStores ==
    /\ [](\A t \in Threads :
             pc[t] \in {"uread", "uwrite"} /\ ulock = NoThread => ENABLED UserStep(t))
    /\ [][\A t \in Threads :
             /\ TaskStoreStep(t) => UNCHANGED <<ufile, upartial, umissing, ulock>>
             /\ UserStoreStep(t) => UNCHANGED <<file, partial, missing, lock>>]_vars

\* one thread holds the task store's lock in a write while another holds the user
\* store's lock in a write
C18_Witness ==
    \E t, u \in Threads :
        /\ lock = t /\ pc[t] = "dump"
        /\ ulock = u /\ pc[u] = "udump"


----------------------------------------------------------------------------
(* Progress (LiveSpec) *)

\* C19: no call of the store blocks for ever: every call that was started returns
\* or raises, a thread whose call has returned or raised (a failed disk write
\* included) does not hold the lock, and while a call is in progress some thread
\* can take a step.
C19_NoBlocking ==
    /\ [](\A t \in Threads : pc[t] = "idle" => lock # t)
    /\ []((\E t \in Threads : pc[t] # "idle") => ENABLED SomeStep)
    /\ \A t \in Threads : (pc[t] # "idle") ~> (pc[t] = "idle")

\* a create raised on a failed dump, and the call another thread made of the
\* truncated file has returned
C19_Witness ==
    \E t, u \in Threads :
        /\ pc[t] = "idle" /\ op[t].kind = "create" /\ op[t].exc
        /\ pc[u] = "idle" /\ op[u].kind \in Mutating /\ ~op[u].exc
        /\ op[u].disk = "truncated"
        /\ lock = NoThread


----------------------------------------------------------------------------
(* Registration (RegisterSpec) *)

\* C20: no two stored users have the same username, after register requests that
\* are handled in any order, two pending requests for one username included.
C20_UniqueUsernames ==
    \A i, j \in 1..Len(ufile) : i # j => ufile[i].username # ufile[j].username

\* two requests to register "bob" arrived before either was answered: one was
\* answered 200, the other 400
C20_Witness ==
    \E t, u \in Threads :
        /\ t # u /\ pc[t] = "idle" /\ pc[u] = "idle"
        /\ uop[t].kind = "register" /\ uop[t].username = "bob" /\ uop[t].resp = 200
        /\ uop[u].kind = "register" /\ uop[u].username = "bob" /\ uop[u].resp = 400
        /\ uop[t].pre = InitialUsers /\ uop[u].pre = InitialUsers
        /\ Len(ufile) = 2


----------------------------------------------------------------------------
(* User management (RegisterSpec, AuthSpec) *)

\* a user with this username is stored in the collection
NameStored(coll, name) == \E i \in 1..Len(coll) : coll[i].username = name

\* the step in which thread t's request of this kind is answered
Answers(t, kind) == uop[t].kind = kind /\ pc[t] # "idle" /\ pc'[t] = "idle"

\* C21: a register request for a stored username is answered 400 and leaves the
\* user collection as it is; one for a username that is not stored is answered 200
\* and appends exactly one record for it.
C21_RegisterConflict ==
    [][\A t \in Threads :
          /\ (uop[t].kind = "register" /\ pc[t] = "uexists" /\ pc'[t] # "uexists") =>
                IF NameStored(ufile, uop[t].username)
                THEN pc'[t] = "idle" /\ uop'[t].resp = 400 /\ ufile' = ufile
                ELSE pc'[t] = "uread" /\ ufile' = ufile
          /\ (Answers(t, "register") /\ pc[t] \notin {"uauth", "uexists"}) =>
                /\ uop'[t].resp = 200
                /\ ~NameStored(ufile, uop[t].username)
                /\ ufile' = Append(ufile, NewUser(uop[t].username))
                /\ Cardinality({i \in 1..Len(ufile') :
                                    ufile'[i].username = uop[t].username}) = 1]_vars

\* a request to register "admin" was answered 400 with the collection as it was,
\* and one to register "bob" was answered 200 and stored one more user
C21_Witness ==
    \E t, u \in Threads :
        /\ pc[t] = "idle" /\ pc[u] = "idle"
        /\ uop[t].kind = "register" /\ uop[t].username = "admin" /\ uop[t].resp = 400
        /\ uop[u].kind = "register" /\ uop[u].username = "bob" /\ uop[u].resp = 200
        /\ ufile = Append(uop[t].pre, NewUser("bob"))


\* the account may manage users: is_admin is set, or it is named "admin"
AdminCapable(user) == user.is_admin \/ user.username = "admin"

\* C24: a register request of an authenticated caller that is not admin-capable
\* adds no user to the user store.
C24_RegisterAdminOnly ==
    [][\A t \in Threads :
          (/\ Answers(t, "register")
           /\ uop[t].me # None
           /\ ~AdminCapable(uop[t].me[1])) => ufile' = ufile]_vars


C23_AdminOnly ==
    [][\A t \in Threads :
          (Answers(t, "list_users") \/ Answers(t, "delete_user")) =>
              /\ uop'[t].resp = 200 => uop[t].me # None /\ AdminCapable(uop[t].me[1])
              /\ (uop[t].me # None /\ ~AdminCapable(uop[t].me[1])) =>
                     uop'[t].resp = 403 /\ ufile' = ufile]_vars

\* testuser's request to delete admin2 was answered 403 and admin2 is still stored,
\* while admin2's request to list the users was answered 200 with all of them
C23_Witness ==
    \E t, u \in Threads :
        /\ pc[t] = "idle" /\ pc[u] = "idle"
        /\ uop[t].kind = "delete_user" /\ uop[t].caller = "testuser"
        /\ uop[t].username = "admin2" /\ uop[t].resp = 403
        /\ uop[u].kind = "list_users" /\ uop[u].caller = "admin2"
        /\ uop[u].resp = 200 /\ uop[u].all = ufile
        /\ NameStored(ufile, "admin2")


\* the record stored under the name, when one is stored
RecordOf(coll, name) == coll[CHOOSE i \in 1..Len(coll) : coll[i].username = name]

\* C25: a password change with a wrong current password is answered 400 and leaves
\* the user store as it was; one that succeeds writes a collection in which only the
\* caller's hashed_password differs: it is the hash of the new password, the
\* caller's other fields and every other user's record are as before.
C25_PasswordChange ==
    [][\A t \in Threads :
          Answers(t, "change_password") /\ uop[t].me # None =>
              IF ~verify_password(uop[t].current, uop[t].me[1].hashed_password)
              THEN uop'[t].resp = 400 /\ ufile' = ufile
              ELSE /\ uop'[t].resp = 200
                   /\ Len(ufile') = Len(ufile)
                   /\ \A i \in 1..Len(ufile) :
                         IF ufile[i].username = uop[t].caller
                         THEN ufile'[i] = [ufile[i] EXCEPT !.hashed_password =
                                               get_password_hash(uop[t].new)]
                         ELSE ufile'[i] = ufile[i]]_vars

\* testuser changed its password with the right current one, and a second request
\* with a wrong current one was answered 400: the new hash is stored, admin's
\* record is as it was
C25_Witness ==
    \E t, u \in Threads :
        /\ pc[t] = "idle" /\ pc[u] = "idle"
        /\ uop[t].kind = "change_password" /\ uop[t].caller = "testuser"
        /\ uop[t].current = "secret" /\ uop[t].resp = 200
        /\ uop[u].kind = "change_password" /\ uop[u].caller = "testuser"
        /\ uop[u].current = "changeme" /\ uop[u].resp = 400
        /\ NameStored(ufile, "testuser")
        /\ RecordOf(ufile, "testuser").hashed_password = get_password_hash("new")
        /\ RecordOf(ufile, "admin") = InitialUsers[1]


----------------------------------------------------------------------------
(* Categories (CatSpec) *)

\* the category name is explicitly stored
StoredCategory(name) == \E i \in 1..Len(categories) : categories[i] = name

\* the names that are the category of a task in the collection
UsedCategories(coll) ==
    {c \in CategoryNames : \E i \in 1..Len(coll) : coll[i].category = Some(c)}

\* the step in which thread t calls the category store, or the listing
CatStep(t, kind) == cop'[t].n = cop[t].n + 1 /\ cop'[t].kind = kind

\* C26: the category listing is the sorted, duplicate-free union of the stored
\* categories and the categories of the current tasks, so a stored category that
\* no task uses is listed.
C26_CategoryUnion ==
    \A t \in Threads :
        cop[t].kind = "get_categories" =>
            cop[t].list = sorted(Range(cop[t].pre) \cup UsedCategories(cop[t].tasks))

\* C27: the stored categories never hold a name twice; add returns false and
\* changes nothing exactly when the name is stored and else stores it and returns
\* true; delete returns false and changes nothing exactly when the name is absent
\* and else removes it; exists is true exactly for stored names.
C27_CategoryStore ==
    /\ [](\A i, j \in 1..Len(categories) : i # j => categories[i] # categories[j])
    /\ [][\A t \in Threads, name \in CategoryNames :
             /\ (CatStep(t, "add") /\ cop'[t].name = name) =>
                   /\ cop'[t].ok = ~StoredCategory(name)
                   /\ StoredCategory(name) => categories' = categories
                   /\ Range(categories') = Range(categories) \cup {name}
             /\ (CatStep(t, "delete") /\ cop'[t].name = name) =>
                   /\ cop'[t].ok = StoredCategory(name)
                   /\ ~StoredCategory(name) => categories' = categories
                   /\ Range(categories') = Range(categories) \ {name}
             /\ (CatStep(t, "exists") /\ cop'[t].name = name) =>
                   /\ cop'[t].ok = StoredCategory(name)
                   /\ categories' = categories]_vars

\* "Apple" and "Work" were added and "Work" was added again: the third call
\* returned false and the stored names are the two
C27_Witness ==
    \E t \in Threads :
        /\ cop[t].kind = "add" /\ cop[t].name = "Work" /\ ~cop[t].ok
        /\ cop[t].n = 3 /\ cop[t].pre = <<"Apple", "Work">>
        /\ categories = <<"Apple", "Work">>

\* C28: deleting a stored category leaves the tasks, their category fields
\* included, as they are, and the write of a task delete leaves the stored
\* categories as they are.
C28_CategoriesAndTasks ==
    [][\A t \in Threads :
          /\ CatStep(t, "delete") =>
                /\ Len(file') = Len(file)
                /\ \A i \in 1..Len(file) : file'[i].category = file[i].category
          /\ (op[t].kind = "delete" /\ pc[t] # "idle") => categories' = categories]_vars

\* the stored category "Work" was deleted while a task has it as its category,
\* and a task was deleted while "Stored" is a stored category
C28_Witness ==
    \E t \in Threads :
        /\ cop[t].kind = "delete" /\ cop[t].name = "Work" /\ cop[t].ok
        /\ "Work" \in UsedCategories(file)
        /\ pc[t] = "idle" /\ op[t].kind = "delete" /\ op[t].ok
        /\ categories = <<"Stored">>


----------------------------------------------------------------------------
(* Task identity and timestamps (SeqSpec), deletes that overlap (Spec) *)

\* C29: no step of an update or a move changes the id or the created_at of a
\* stored task, and the write of a successful update or move leaves the task's
\* updated_at at the time of that operation, which is not before its created_at.
C29_IdentityAndTimestamps ==
    [][\A t \in Threads :
          (op[t].kind \in {"update", "move"} /\ pc[t] # "idle") =>
              /\ Len(file') = Len(file)
              /\ \A i \in 1..Len(file) :
                    /\ file'[i].id = file[i].id
                    /\ file'[i].created_at = file[i].created_at
                    /\ (file' # file /\ file[i].id = op[t].id) =>
                          /\ file'[i].updated_at = isoformat(op[t].ts)
                          /\ op[t].ts >= parse_datetime(file[i].updated_at)
                          /\ op[t].ts >= parse_datetime(file[i].created_at)]_vars

\* a task was created and then moved: it has the id and the created_at the create
\* returned, and an updated_at that is later
C29_Witness ==
    \E t \in Threads :
        /\ Finished(t, {"move"}) /\ op[t].ret # None
        /\ prev[t].kind = "create" /\ prev[t].ret # None
        /\ op[t].ret[1].id = prev[t].ret[1].id
        /\ op[t].ret[1].created_at = prev[t].ret[1].created_at
        /\ op[t].ret[1].updated_at > prev[t].ret[1].updated_at
        /\ \E i \in 1..Len(file) : TaskOfItem(file[i]) = op[t].ret[1]


\* C30: once a delete of a stored task has returned true, no task with that id is
\* stored again, whatever mutations of other tasks overlapped the delete.
C30_DeletedStaysDeleted ==
    \A t \in Threads :
        Finished(t, {"delete"}) /\ op[t].ok => ~Holds(Disk, op[t].id)


----------------------------------------------------------------------------
(* Deletes and updates that overlap (Spec, RaceSpec) *)

\* C31: of two deletes of one stored id that were both called before either
\* returned, exactly one returns true.
C31_OneDeleteWins ==
    \A t, u \in Threads :
        ( /\ t # u
          /\ Finished(t, {"delete"}) /\ Finished(u, {"delete"})
          /\ op[t].id = op[u].id
          /\ Holds(op[t].pre, op[t].id) /\ Holds(op[u].pre, op[u].id) )
            => op[t].ok # op[u].ok


\* C32: an update or move request ends in an error for the request (404 for an
\* unknown task, 400 for an invalid column) or in 200 with the updated task, also
\* when another thread deletes the task after the route found it.
C32_NotFoundOrTask ==
    \A t \in Threads :
        (Finished(t, {"update", "move"}) /\ op[t].via = "route") =>
            \/ op[t].resp \in {400, 404}
            \/ op[t].resp = 200 /\ op[t].ret # None


\* C33: in two successive persisted collections that both hold a task, the task's
\* updated_at in the later one is not before its updated_at in the earlier one,
\* also when the mutations overlap.
C33_UpdatedAtMonotonic ==
    [][\A i \in 1..Len(file), j \in 1..Len(file') :
          file[i].id = file'[j].id =>
              parse_datetime(file'[j].updated_at) >= parse_datetime(file[i].updated_at)]_vars


----------------------------------------------------------------------------
(* Stored order, the board and the read operations *)

InColumn(coll, col) ==
    SelectSeq([i \in 1..Len(coll) |-> i], LAMBDA i : coll[i].column = col)

ReadKinds == {"get_all", "get", "get_by_column", "get_tasks", "get_board"}
UserReadKinds == {"get_by_username", "exists"}

\* thread t takes a step of a read operation
ReadStep(t) ==
    \/ pc[t] = "read" /\ op[t].kind \in ReadKinds /\ pc'[t] = "idle"
    \/ pc[t] = "uread" /\ uop[t].kind \in UserReadKinds /\ pc'[t] = "idle"
    \/ CatStep(t, "get_categories")

\* C36: no step of a read operation changes what is persisted: the task file, the
\* user file and the stored categories stay as they are, present or missing,
\* complete or truncated.
C36_ReadsChangeNothing ==
    [][\A t \in Threads :
          ReadStep(t) =>
              /\ file' = file /\ partial' = partial /\ missing' = missing
              /\ ufile' = ufile /\ upartial' = upartial /\ umissing' = umissing
              /\ categories' = categories]_vars

\* the board and then the tasks of a column were read while the data directory
\* was removed: both found nothing and the file is still missing
C36_Witness ==
    \E t \in Threads :
        /\ Finished(t, {"get_by_column"}) /\ op[t].disk = "missing" /\ op[t].all = <<>>
        /\ prev[t].kind = "get_board" /\ prev[t].disk = "missing"
        /\ missing /\ umissing

====
